---- MODULE Spec2Model ----
(***************************************************************************)
(* A model of the command shell of src/shell/shell.c: init_shell, the      *)
(* read loop of main, the built-in table, path resolution, redirection,    *)
(* fork/exec and the hand-over of the controlling terminal between the     *)
(* shell and the one foreground child.                                     *)
(*                                                                         *)
(* C strings are sequences of one-character strings; the terminating NUL   *)
(* is what CharAt returns at index Len.  A NULL pointer is the value NULL. *)
(* Allocation failures (malloc, strdup) are not modelled.                  *)
(***************************************************************************)
EXTENDS Integers, Sequences, FiniteSets, TLC

\* ------------------------------------------------------------- bounds
\* Lines read in one run of the shell.
MaxLines == 2
\* Tokens on one input line.
MaxLen == 4
\* Colon-separated fields of a PATH value given to the resolver.
MaxDirs == 3

\* The word counters: input files (one thread or one process each) and
\* words in a file.
MaxFiles == 2
MaxWords == 2

\* The lines a pipe holds before a write to it blocks.
PipeCap == 1

\* ------------------------------------------------------------- strings
NULL == <<"NULL">>
NUL == "\\0"

GT == <<">">>
LT == <<"<">>
S_help == <<"?">>
S_exit == <<"e", "x", "i", "t">>
S_pwd == <<"p", "w", "d">>
S_cd == <<"c", "d">>
S_ls == <<"l", "s">>
S_no == <<"n", "o">>
S_dotA == <<".", "/", "a">>
S_upN == <<".", ".", "/", "n">>
S_f == <<"f">>
S_x == <<"x">>

\* What a descriptor is bound to: the terminal, the script on standard
\* input of a non-interactive run, or a file (named by its path).
TTY == <<"TTY">>
SCRIPT == <<"SCRIPT">>

\* The input alphabet: first tokens and following tokens of a line.
FirstTokens == {S_help, S_exit, S_pwd, S_cd, S_ls, S_no, S_dotA, S_upN, GT}
RestTokens == {GT, LT, S_f, S_x}

RECURSIVE SeqsOver(_, _)
SeqsOver(S, n) ==
    IF n = 0 THEN {<<>>}
    ELSE LET shorter == SeqsOver(S, n - 1)
         IN  shorter \cup {Append(s, x) : s \in {t \in shorter : Len(t) = n - 1}, x \in S}

\* Every tokenized line of at most MaxLen tokens, the empty line included.
Lines ==
    {<<>>} \cup {<<c>> \o r : c \in FirstTokens, r \in SeqsOver(RestTokens, MaxLen - 1)}

\* The environment: PATH unset, or a colon-separated list; the files that
\* access(.., X_OK) accepts; the one file that open() may open.
PathValues == {NULL, <<"/", "u", ":", "/", "b">>}
ExecFiles == {<<"/", "b", "/", "l", "s">>, S_dotA}
OpenableFiles == {S_f}
Modes == {"cooked", "raw"}

\* The job-control signals whose disposition the shell sets; the three that
\* the terminal driver sends to its foreground group on a key press.
JobSignals == {"SIGINT", "SIGQUIT", "SIGTSTP", "SIGTTIN", "SIGTTOU"}
KeyboardSignals == {"SIGINT", "SIGQUIT", "SIGTSTP"}
AllDefault == [s \in JobSignals |-> "dfl"]

\* Mutant of AllIgnored: SIGTSTP is left at its default disposition.
AllIgnoredButSIGTSTP == [s \in JobSignals |-> IF s = "SIGTSTP" THEN "dfl" ELSE "ign"]

AllIgnored == [s \in JobSignals |-> "ign"]

\* Process ids.  The shell starts in the process group of its parent.
ShellPid == 10
OrigPgid == 1

\* ------------------------------------------------------------- state
VARIABLES
    pc,                   \* where the shell process is
    shell_is_interactive, shell_tmodes, shell_pgid,
    line_num, tokens, tokLive, fundex, cmd_path,
    fd0, fd1,             \* what the shell's descriptors 0 and 1 are bound to
    envPATH,              \* getenv("PATH")
    shellPgrp, shellSig,  \* the shell's process group and job-control signal disposition
    tfg, tmode,           \* the terminal: foreground process group, mode
    childPc, childPgid, childSig, childFd0, childFd1, childExeced, childStatus,
    execArgv,             \* argv handed to execv by the child
    status,               \* what waitpid stored
    nread, prompt, err, forked,  \* history of the current line
    ub,                   \* the line's processing went on after a read through NULL
    execFiles,            \* the paths that access(.., X_OK) accepts
    startupFailed,        \* the calls of init_shell that failed
    unreaped,             \* children forked and not yet waited for
    kbd                   \* a keyboard signal reached the shell between fork and its tcsetpgrp

\* The state of the other programs of the repository and of a built-in
\* called on its own; it is constant while the shell's loop runs.
VARIABLES
    ret,                  \* what the built-in returned (-1: it has not returned)
    cwd                   \* the working directory of the shell process

biVars == <<ret, cwd>>

\* The word counters (pwords: one thread per file).
VARIABLES
    nfiles,               \* argc - 1
    todo,                 \* per file: the words count_words has not read yet
    tpc,                  \* per thread: where it is (0 is the main thread on stdin)
    found,                \* per thread: add_word's wc, an index of the list, 0 for NULL
    lock,                 \* wclist->lock: the thread that holds it, -1 when free
    word_counts,          \* the list, in list order
    mpc, mi,              \* main: where it is, its loop index
    calls,                \* per word: the add_word calls made so far
    out                   \* what was printed on stdout

wcVars == <<nfiles, todo, tpc, found, lock, word_counts, mpc, mi, calls, out>>

\* The word counters (fwords: one child process and one pipe per file).
VARIABLES
    cpc,                  \* per child: where it is
    clist,                \* per child: child_word_counts
    wbuf,                 \* per child: the lines of pipe_stream not yet in the pipe
    cstatus,              \* per child: how it ended
    pipes,                \* per pipe: the lines in it
    rd, wr,               \* per pipe: the processes that hold its read end, write end
    reaped,               \* per child: how often waitpid returned it
    sawEOF                \* per pipe: merge_counts reached the end of the stream

fwVars == <<cpc, clist, wbuf, cstatus, pipes, rd, wr, reaped, sawEOF>>

otherVars == <<biVars, wcVars, fwVars>>

shellState ==
    <<pc, shell_is_interactive, shell_tmodes, shell_pgid,
      line_num, tokens, tokLive, fundex, cmd_path, fd0, fd1, envPATH, shellPgrp, shellSig,
      tfg, tmode, childPc, childPgid, childSig, childFd0, childFd1, childExeced,
      childStatus, execArgv, status, nread, prompt, err, forked, ub,
      execFiles, startupFailed, unreaped, kbd>>

vars == <<shellState, otherVars>>

shellVars ==
    <<shell_is_interactive, shell_tmodes, shell_pgid, envPATH,
      shellPgrp, shellSig, execFiles, startupFailed>>

childVars ==
    <<childPc, childPgid, childSig, childFd0, childFd1, childExeced, childStatus, execArgv>>

\* ------------------------------------------------------------- tokenizer
TokensGetLength(toks) == Len(toks)

TokensGetToken(toks, n) == IF n < Len(toks) THEN toks[n + 1] ELSE NULL

\* s[i] of a C string, 0-based, the terminator at Len(s).
CharAt(s, i) == IF i < Len(s) THEN s[i + 1] ELSE NUL

\* ------------------------------------------------------------- built-ins
cmd_table == <<S_help, S_exit, S_pwd, S_cd>>

RECURSIVE LookupFrom(_, _)
LookupFrom(cmd, i) ==
    IF i >= Len(cmd_table) THEN -1
    ELSE IF cmd_table[i + 1] = cmd THEN i
    ELSE LookupFrom(cmd, i + 1)

\* Mutant of Lookup: the scan starts at the second entry of the table.
LookupSkipsFirst(cmd) == IF cmd # NULL THEN LookupFrom(cmd, 1) ELSE -1

Lookup(cmd) == IF cmd # NULL THEN LookupFrom(cmd, 0) ELSE -1

\* ------------------------------------------------------------- resolver
IsFullPath(cmd) ==
    \/ CharAt(cmd, 0) = "/"
    \/ (CharAt(cmd, 0) = "." /\ CharAt(cmd, 1) = "/")
    \/ (CharAt(cmd, 0) = "." /\ CharAt(cmd, 1) = "." /\ CharAt(cmd, 2) = "/")

\* strtok(.., ":"): the non-empty fields between colons, left to right.
RECURSIVE StrTok(_, _, _)
StrTok(s, i, cur) ==
    IF i > Len(s) THEN (IF cur = <<>> THEN <<>> ELSE <<cur>>)
    ELSE IF s[i] = ":" THEN (IF cur = <<>> THEN <<>> ELSE <<cur>>) \o StrTok(s, i + 1, <<>>)
    ELSE StrTok(s, i + 1, Append(cur, s[i]))

Access(path) == path \in execFiles

\* Mutant of TryDirs: the last directory that matches wins.
RECURSIVE TryDirsLastMatch(_, _, _)
TryDirsLastMatch(dirs, k, cmd) ==
    IF k > Len(dirs) THEN NULL
    ELSE LET try_path == dirs[k] \o <<"/">> \o cmd
             later == TryDirsLastMatch(dirs, k + 1, cmd)
         IN  IF later # NULL THEN later
             ELSE IF Access(try_path) THEN try_path ELSE NULL

RECURSIVE TryDirs(_, _, _)
TryDirs(dirs, k, cmd) ==
    IF k > Len(dirs) THEN NULL
    ELSE LET try_path == dirs[k] \o <<"/">> \o cmd
         IN  IF Access(try_path) THEN try_path ELSE TryDirs(dirs, k + 1, cmd)

GetFullPath(cmd, path) ==
    IF path = NULL THEN NULL ELSE TryDirs(StrTok(path, 1, <<>>), 1, cmd)

\* ------------------------------------------------------------- redirection
RECURSIVE NeedsRedirectionFrom(_, _)
NeedsRedirectionFrom(toks, i) ==
    IF i >= TokensGetLength(toks) THEN FALSE
    ELSE IF TokensGetToken(toks, i) = GT \/ TokensGetToken(toks, i) = LT THEN TRUE
    ELSE NeedsRedirectionFrom(toks, i + 1)

NeedsRedirection(toks) == NeedsRedirectionFrom(toks, 0)

\* ------------------------------------------------------------- argv
\* A slot of the malloc'ed argv array that no statement has written.
UNINIT == <<"UNINIT">>

IsOperator(tok) == tok = GT \/ tok = LT

ArgvSize(toks) ==
    IF NeedsRedirection(toks) THEN TokensGetLength(toks) - 2 ELSE TokensGetLength(toks)

\* Mutant of ArgvLoop: the operator is skipped, its filename is copied.
RECURSIVE ArgvLoopKeepsFilename(_, _, _, _)
ArgvLoopKeepsFilename(toks, i, idx, argv) ==
    IF i >= TokensGetLength(toks) THEN argv
    ELSE IF IsOperator(TokensGetToken(toks, i))
         THEN ArgvLoopKeepsFilename(toks, i + 1, idx, argv)
    ELSE ArgvLoopKeepsFilename(toks, i + 1, idx + 1,
                               [argv EXCEPT ![idx] = TokensGetToken(toks, i)])

\* The copy loop: i is the token index, idx the next argv slot.
RECURSIVE ArgvLoop(_, _, _, _)
ArgvLoop(toks, i, idx, argv) ==
    IF i >= TokensGetLength(toks) THEN argv
    ELSE IF IsOperator(TokensGetToken(toks, i)) THEN ArgvLoop(toks, i + 2, idx, argv)
    ELSE ArgvLoop(toks, i + 1, idx + 1, [argv EXCEPT ![idx] = TokensGetToken(toks, i)])

\* argv as execv receives it: slots 0..argv_size, as the sequence of their values.
BuildArgv(toks) ==
    LET size == ArgvSize(toks)
        fresh == [k \in 0..size |-> UNINIT]
        first == [fresh EXCEPT ![0] = TokensGetToken(toks, 0)]
        copied == ArgvLoop(toks, 1, 1, first)
        done == [copied EXCEPT ![size] = NULL]
    IN  [k \in 1..(size + 1) |-> done[k - 1]]

\* The pid fork returns for the child of the current line.
\* The other programs are not running.
BuiltinIdle ==
    /\ ret = -1
    /\ cwd = <<"/">>

\* The words of the input files (C strings).
S_a == <<"a">>
S_b == <<"b">>
S_c == <<"c">>

Words == {S_a, S_b}

Threads == 0 .. MaxFiles

\* No word counter runs: there are no threads, and the list is empty.
WordcountIdle ==
    /\ nfiles = 0
    /\ todo = <<>>
    /\ tpc = <<>>
    /\ found = <<>>
    /\ lock = -1
    /\ word_counts = <<>>
    /\ mpc = "idle"
    /\ mi = 0
    /\ calls = <<>>
    /\ out = <<>>

Children == 1 .. MaxFiles

FwordsIdle ==
    /\ cpc = <<>>
    /\ clist = <<>>
    /\ wbuf = <<>>
    /\ cstatus = <<>>
    /\ pipes = <<>>
    /\ rd = <<>>
    /\ wr = <<>>
    /\ reaped = <<>>
    /\ sawEOF = <<>>

OthersIdle == BuiltinIdle /\ WordcountIdle /\ FwordsIdle

ChildPid == ShellPid + nread

NoChild ==
    /\ childPc = "none"
    /\ childPgid = 0
    /\ childSig = AllDefault
    /\ childFd0 = NULL
    /\ childFd1 = NULL
    /\ childExeced = FALSE
    /\ childStatus = "none"
    /\ execArgv = <<>>

Init ==
    /\ pc = "init"
    /\ shell_is_interactive = FALSE
    /\ shell_tmodes = "zero"
    /\ shell_pgid = 0
    /\ line_num = 0
    /\ tokens = <<>>
    /\ tokLive = FALSE
    /\ fundex = -1
    /\ cmd_path = NULL
    /\ fd0 \in {TTY, SCRIPT}
    /\ fd1 = TTY
    /\ envPATH \in PathValues
    /\ shellPgrp = OrigPgid
    /\ shellSig = AllDefault
    /\ tfg = OrigPgid
    /\ tmode = "cooked"
    /\ NoChild
    /\ status = "none"
    /\ nread = 0
    /\ prompt = -1
    /\ err = "none"
    /\ forked = FALSE
    /\ ub = FALSE
    /\ execFiles = ExecFiles
    /\ startupFailed = {}
    /\ unreaped = 0
    /\ kbd = FALSE
    /\ OthersIdle

\* ------------------------------------------------------------- terminal
\* tcsetpgrp(fd, pgrp): the new foreground group; the call fails, and changes
\* nothing, when fd is not the terminal or pgrp is no process group.
TcSetPgrp(fd, pgrp, exists) == IF fd = TTY /\ exists THEN pgrp ELSE tfg

\* tcsetattr(fd, .., mode): the new terminal mode.
TcSetAttr(fd, mode) == IF fd = TTY THEN mode ELSE tmode

\* ------------------------------------------------------------- startup
\* The calls of init_shell that may fail: setpgid (the shell leads a
\* session), tcsetpgrp and tcgetattr (the terminal went away).
StartupCalls == {"setpgid", "tcsetpgrp", "tcgetattr"}

\* init_shell.  The loop on tcgetpgrp lets the shell through once its group
\* is the foreground group.  Only the result of setpgid is tested; a failed
\* tcsetpgrp leaves the foreground group as it was and a failed tcgetattr
\* leaves shell_tmodes zeroed, and the shell goes on.
InitShell ==
    /\ pc = "init"
    /\ shell_is_interactive' = (fd0 = TTY)
    /\ IF fd0 = TTY
       THEN /\ tfg = shellPgrp
            /\ shellSig' = AllIgnored
            /\ shell_pgid' = ShellPid
            /\ \E failed \in SUBSET StartupCalls :
                  /\ startupFailed' = failed
                  /\ IF "setpgid" \in failed
                     THEN /\ failed = {"setpgid"}
                          /\ pc' = "exit_init"
                          /\ UNCHANGED <<shellPgrp, tfg, shell_tmodes>>
                     ELSE /\ shellPgrp' = ShellPid
                          /\ tfg' = IF "tcsetpgrp" \in failed
                                    THEN tfg
                                    ELSE TcSetPgrp(fd0, ShellPid, TRUE)
                          /\ shell_tmodes' = IF "tcgetattr" \in failed
                                             THEN shell_tmodes
                                             ELSE tmode
                          /\ pc' = "main"
       ELSE /\ pc' = "main"
            /\ UNCHANGED <<shellSig, shell_pgid, shellPgrp, tfg, shell_tmodes, startupFailed>>
    /\ UNCHANGED <<otherVars, line_num, tokens, tokLive, fundex, cmd_path, fd0, fd1, envPATH, tmode,
                   childVars, status, nread, prompt, err, forked, ub, execFiles, unreaped,
                   kbd>>

\* Mutant of MainPrompt: the first prompt is printed in either mode.
MainPromptAlways ==
    /\ pc = "main"
    /\ pc' = "read"
    /\ prompt' = line_num
    /\ UNCHANGED <<otherVars, shellVars, unreaped, kbd, fundex, ub, line_num, tokens, tokLive, cmd_path,
                   fd0, fd1, tfg, tmode, childVars, status, nread, err, forked>>

MainPrompt ==
    /\ pc = "main"
    /\ pc' = "read"
    /\ prompt' = IF shell_is_interactive THEN line_num ELSE prompt
    /\ UNCHANGED <<otherVars, shellVars, unreaped, kbd, fundex, ub, line_num, tokens, tokLive, cmd_path, fd0, fd1, tfg, tmode,
                   childVars, status, nread, err, forked>>

\* ------------------------------------------------------------- read loop
\* The end of one iteration: the next prompt, then tokens_destroy.
LoopEnd ==
    /\ line_num' = IF shell_is_interactive THEN line_num + 1 ELSE line_num
    /\ prompt' = IF shell_is_interactive THEN line_num + 1 ELSE prompt
    /\ tokens' = <<>>
    /\ tokLive' = FALSE
    /\ pc' = "read"

ContinueKeepsTokens(msg) ==
    /\ err' = msg
    /\ pc' = "read"
    /\ UNCHANGED <<tokens, tokLive, line_num, prompt>>

\* An error path that leaves the iteration by `continue`.
Continue(msg) ==
    /\ err' = msg
    /\ tokens' = <<>>
    /\ tokLive' = FALSE
    /\ pc' = "read"
    /\ UNCHANGED <<line_num, prompt>>

\* A fault of the shell process (a NULL pointer read).
Crash ==
    /\ pc' = "segv"
    /\ UNCHANGED <<err, tokens, tokLive, line_num, prompt>>

ReadEOF ==
    /\ pc = "read"
    /\ pc' = "exit_eof"
    /\ UNCHANGED <<otherVars, shellVars, unreaped, kbd, fundex, ub, line_num, tokens, tokLive, cmd_path, fd0, fd1, tfg, tmode,
                   childVars, status, nread, prompt, err, forked>>

\* fgets and tokenize give the next line's tokens; lookup of token 0.
\* (tokenize returning NULL is an allocation failure.)  A read of the
\* terminal by a process outside the foreground group that ignores SIGTTIN
\* fails, which fgets reports as the end of the input (ReadEOF).
ReadLine ==
    /\ pc = "read"
    /\ nread < MaxLines
    /\ (fd0 = TTY) => (tfg = shellPgrp)
    /\ pc' = "dispatch"
    /\ \E l \in Lines :
          /\ tokens' = l
          /\ fundex' = Lookup(TokensGetToken(l, 0))
    /\ tokLive' = TRUE
    /\ nread' = nread + 1
    /\ prompt' = -1
    /\ err' = "none"
    /\ forked' = FALSE
    /\ ub' = FALSE
    /\ status' = "none"
    /\ kbd' = FALSE
    /\ UNCHANGED <<otherVars, shellVars, unreaped, line_num, cmd_path, fd0, fd1, tfg, tmode, childVars>>

RunBuiltinExitReturns ==
    /\ pc = "dispatch"
    /\ fundex >= 0
    /\ LoopEnd
    /\ UNCHANGED <<otherVars, shellVars, unreaped, kbd, fundex, ub, cmd_path, fd0, fd1, tfg, tmode, childVars, status,
                   nread, err, forked>>

\* A built-in runs in the shell process; its return value is discarded.
\* cmd_exit does not return: it ends the process by exit(0).
RunBuiltin ==
    /\ pc = "dispatch"
    /\ fundex >= 0
    /\ IF cmd_table[fundex + 1] = S_exit
       THEN /\ pc' = "exit_builtin"
            /\ UNCHANGED <<line_num, prompt, tokens, tokLive>>
       ELSE LoopEnd
    /\ UNCHANGED <<otherVars, shellVars, unreaped, kbd, fundex, ub, cmd_path, fd0, fd1, tfg, tmode, childVars, status,
                   nread, err, forked>>

\* An empty line: token 0 is NULL, lookup misses, and is_full_path reads
\* through the NULL pointer.  The read faults, or the build lets control
\* reach the cmd == NULL test.
NullCommand ==
    /\ pc = "dispatch"
    /\ fundex < 0
    /\ TokensGetToken(tokens, 0) = NULL
    /\ \/ (Crash /\ UNCHANGED ub)
       \/ (Continue("notfound") /\ ub' = TRUE)
    /\ UNCHANGED <<otherVars, shellVars, unreaped, kbd, fundex, cmd_path, fd0, fd1, tfg, tmode, childVars, status,
                   nread, forked>>

\* The line names an external command: no built-in, token 0 present.
External ==
    /\ pc = "dispatch"
    /\ fundex < 0
    /\ TokensGetToken(tokens, 0) # NULL

\* Mutant of ResolveCmd: a path-like name is kept only if it is executable.
ResolveCmdChecksAccess(cmd, path) ==
    IF IsFullPath(cmd) THEN (IF Access(cmd) THEN cmd ELSE NULL) ELSE GetFullPath(cmd, path)

ResolveCmd(cmd, path) == IF IsFullPath(cmd) THEN cmd ELSE GetFullPath(cmd, path)

\* No redirection on the line: resolve, then go on to fork.
Resolve ==
    /\ External
    /\ ~NeedsRedirection(tokens)
    /\ cmd_path' = ResolveCmd(TokensGetToken(tokens, 0), envPATH)
    /\ pc' = "fork"
    /\ UNCHANGED <<otherVars, shellVars, unreaped, kbd, fundex, ub, line_num, tokens, tokLive, fd0, fd1, tfg, tmode, childVars,
                   status, nread, prompt, err, forked>>

\* Token 1 is not an operator.  When it is absent, strcmp reads through NULL.
RedirectBadOperator ==
    /\ External
    /\ NeedsRedirection(tokens)
    /\ ~IsOperator(TokensGetToken(tokens, 1))
    /\ \/ (Continue("badop") /\ ub' = (TokensGetToken(tokens, 1) = NULL))
       \/ (TokensGetToken(tokens, 1) = NULL /\ Crash /\ UNCHANGED ub)
    /\ cmd_path' = NULL
    /\ UNCHANGED <<otherVars, shellVars, unreaped, kbd, fundex, fd0, fd1, tfg, tmode, childVars, status, nread, forked>>

\* open() of token 2: only an openable file can be opened, and it may fail too.
CanOpen(name) == name \in OpenableFiles

RedirectOpenFails ==
    /\ External
    /\ NeedsRedirection(tokens)
    /\ IsOperator(TokensGetToken(tokens, 1))
    /\ Continue("open")
    /\ cmd_path' = NULL
    /\ UNCHANGED <<otherVars, shellVars, unreaped, kbd, fundex, ub, fd0, fd1, tfg, tmode, childVars, status, nread, forked>>

\* open() succeeded: dup2 onto descriptor 1 (for >) or 0 (for <), close.
Redirect ==
    /\ External
    /\ NeedsRedirection(tokens)
    /\ IsOperator(TokensGetToken(tokens, 1))
    /\ CanOpen(TokensGetToken(tokens, 2))
    /\ cmd_path' = ResolveCmd(TokensGetToken(tokens, 0), envPATH)
    /\ fd1' = IF TokensGetToken(tokens, 1) = GT THEN TokensGetToken(tokens, 2) ELSE fd1
    /\ fd0' = IF TokensGetToken(tokens, 1) = GT THEN fd0 ELSE TokensGetToken(tokens, 2)
    /\ pc' = "fork"
    /\ UNCHANGED <<otherVars, shellVars, unreaped, kbd, fundex, ub, line_num, tokens, tokLive, tfg, tmode, childVars, status,
                   nread, prompt, err, forked>>

\* Mutant of ForkFails: the failure is reported and the loop goes on.
ForkFailsContinues ==
    /\ pc = "fork"
    /\ Continue("fork")
    /\ cmd_path' = NULL
    /\ UNCHANGED <<otherVars, shellVars, unreaped, kbd, fundex, ub, fd0, fd1, tfg, tmode, childVars, status, nread,
                   forked>>

\* Mutant of Fork: the dispositions are reset before the fork, in the shell.
ForkAfterSignalReset ==
    /\ pc = "fork"
    /\ pc' = "p_setpgid"
    /\ forked' = TRUE
    /\ shellSig' = AllDefault
    /\ childPc' = "c_setpgid"
    /\ childPgid' = shellPgrp
    /\ childSig' = AllDefault
    /\ childFd0' = fd0
    /\ childFd1' = fd1
    /\ childExeced' = FALSE
    /\ childStatus' = "none"
    /\ execArgv' = <<>>
    /\ unreaped' = unreaped + 1
    /\ UNCHANGED <<otherVars, shell_is_interactive, shell_tmodes, shell_pgid, envPATH, shellPgrp,
                   execFiles, startupFailed, kbd, fundex, ub, line_num, tokens, tokLive,
                   cmd_path, fd0, fd1, tfg, tmode, status, nread, prompt, err>>

ForkFails ==
    /\ pc = "fork"
    /\ err' = "fork"
    /\ cmd_path' = NULL
    /\ pc' = "exit_fork"
    /\ UNCHANGED <<otherVars, shellVars, unreaped, kbd, fundex, ub, line_num, tokens, tokLive, fd0, fd1, tfg, tmode, childVars,
                   status, nread, prompt, forked>>

\* fork() returned the child's pid: the child is a copy of the shell.
Fork ==
    /\ pc = "fork"
    /\ pc' = "p_setpgid"
    /\ forked' = TRUE
    /\ childPc' = "c_setpgid"
    /\ childPgid' = shellPgrp
    /\ childSig' = shellSig
    /\ childFd0' = fd0
    /\ childFd1' = fd1
    /\ childExeced' = FALSE
    /\ childStatus' = "none"
    /\ execArgv' = <<>>
    /\ unreaped' = unreaped + 1
    /\ UNCHANGED <<otherVars, shellVars, kbd, fundex, ub, line_num, tokens, tokLive, cmd_path, fd0, fd1,
                   tfg, tmode, status, nread, prompt, err>>

\* ------------------------------------------------------------- parent
\* Mutant of ParentSetpgid: a failure other than EACCES ends the shell.
ParentSetpgidFatal ==
    /\ pc = "p_setpgid"
    /\ \/ /\ ~childExeced
          /\ childPgid' = ChildPid
          /\ pc' = "p_tcsetpgrp"
          /\ UNCHANGED err
       \/ /\ childExeced
          /\ pc' = "p_tcsetpgrp"
          /\ UNCHANGED <<childPgid, err>>
       \/ /\ childPc = "zombie"
          /\ err' = "setpgid"
          /\ pc' = "exit_setpgid"
          /\ UNCHANGED childPgid
    /\ UNCHANGED <<otherVars, shellVars, unreaped, kbd, fundex, ub, line_num, tokens, tokLive, cmd_path,
                   fd0, fd1, tfg, tmode, childPc, childSig, childFd0, childFd1, childExeced,
                   childStatus, execArgv, status, nread, prompt, forked>>

\* setpgid(pid, pid) by the shell.  It succeeds while the child has not
\* exec'ed; after the exec it fails with EACCES, which is not reported; on
\* a child that has already exited it may also fail with another code.
ParentSetpgid ==
    /\ pc = "p_setpgid"
    /\ pc' = "p_tcsetpgrp"
    /\ \/ /\ ~childExeced
          /\ childPgid' = ChildPid
          /\ UNCHANGED err
       \/ /\ childExeced
          /\ UNCHANGED <<childPgid, err>>
       \/ /\ childPc = "zombie"
          /\ err' = "setpgid"
          /\ UNCHANGED childPgid
    /\ UNCHANGED <<otherVars, shellVars, unreaped, kbd, fundex, ub, line_num, tokens, tokLive, cmd_path, fd0, fd1, tfg, tmode,
                   childPc, childSig, childFd0, childFd1, childExeced, childStatus, execArgv,
                   status, nread, prompt, forked>>

\* tcsetpgrp(shell_terminal, pid) by the shell.
ParentHandForeground ==
    /\ pc = "p_tcsetpgrp"
    /\ pc' = "p_wait"
    /\ tfg' = IF shell_is_interactive
              THEN TcSetPgrp(fd0, ChildPid, childPgid = ChildPid)
              ELSE tfg
    /\ kbd' = FALSE
    /\ UNCHANGED <<otherVars, shellVars, unreaped, fundex, ub, line_num, tokens, tokLive, cmd_path, fd0, fd1, tmode,
                   childVars, status, nread, prompt, err, forked>>

\* Mutant of ParentWait: the call returns at once and reaps nothing.
ParentWaitNoHang ==
    /\ pc = "p_wait"
    /\ pc' = "p_reclaim"
    /\ cmd_path' = NULL
    /\ UNCHANGED <<otherVars, shellVars, unreaped, kbd, fundex, ub, line_num, tokens, tokLive, fd0, fd1,
                   tfg, tmode, childVars, status, nread, prompt, err, forked>>

\* waitpid(pid, &status, 0) returns once the child has terminated.
ParentWait ==
    /\ pc = "p_wait"
    /\ childPc = "zombie"
    /\ pc' = "p_reclaim"
    /\ status' = childStatus
    /\ cmd_path' = NULL
    /\ childPc' = "none"
    /\ childPgid' = 0
    /\ childSig' = AllDefault
    /\ childFd0' = NULL
    /\ childFd1' = NULL
    /\ childExeced' = FALSE
    /\ childStatus' = "none"
    /\ execArgv' = <<>>
    /\ unreaped' = unreaped - 1
    /\ UNCHANGED <<otherVars, shellVars, kbd, fundex, ub, line_num, tokens, tokLive, fd0, fd1, tfg, tmode,
                   nread, prompt, err, forked>>

\* Mutant of ParentReclaim: the foreground group is not taken back.
ParentReclaimKeepsForeground ==
    /\ pc = "p_reclaim"
    /\ tmode' = IF shell_is_interactive THEN TcSetAttr(fd0, shell_tmodes) ELSE tmode
    /\ LoopEnd
    /\ UNCHANGED <<otherVars, shellVars, unreaped, kbd, fundex, ub, cmd_path, fd0, fd1, tfg, childVars, status, nread,
                   err, forked>>

\* tcsetpgrp(shell_terminal, shell_pgid), tcsetattr(.., &shell_tmodes), then
\* the end of the iteration.
ParentReclaim ==
    /\ pc = "p_reclaim"
    /\ tfg' = IF shell_is_interactive THEN TcSetPgrp(fd0, shell_pgid, TRUE) ELSE tfg
    /\ tmode' = IF shell_is_interactive THEN TcSetAttr(fd0, shell_tmodes) ELSE tmode
    /\ LoopEnd
    /\ UNCHANGED <<otherVars, shellVars, unreaped, kbd, fundex, ub, cmd_path, fd0, fd1, childVars, status, nread, err,
                   forked>>

\* ------------------------------------------------------------- child
ChildExits(st) ==
    /\ childPc' = "zombie"
    /\ childStatus' = st

\* setpgid(0, 0) in the child; on failure the child exits.
ChildSetpgidResetsSignals ==
    /\ childPc = "c_setpgid"
    /\ \/ /\ childPgid' = ChildPid
          /\ childPc' = "c_tcsetpgrp"
          /\ childSig' = AllDefault
          /\ UNCHANGED childStatus
       \/ /\ ChildExits("exit1")
          /\ UNCHANGED <<childPgid, childSig>>
    /\ UNCHANGED <<pc, otherVars, shellVars, unreaped, kbd, fundex, ub, line_num, tokens, tokLive, cmd_path, fd0, fd1, tfg, tmode,
                   childFd0, childFd1, childExeced, execArgv, status, nread,
                   prompt, err, forked>>

ChildSetpgid ==
    /\ childPc = "c_setpgid"
    /\ \/ /\ childPgid' = ChildPid
          /\ childPc' = "c_tcsetpgrp"
          /\ UNCHANGED childStatus
       \/ /\ ChildExits("exit1")
          /\ UNCHANGED childPgid
    /\ UNCHANGED <<pc, otherVars, shellVars, unreaped, kbd, fundex, ub, line_num, tokens, tokLive, cmd_path, fd0, fd1, tfg, tmode,
                   childSig, childFd0, childFd1, childExeced, execArgv, status, nread,
                   prompt, err, forked>>

\* tcsetpgrp(shell_terminal, getpid()) in the child, on its own descriptor 0.
ChildTakeForeground ==
    /\ childPc = "c_tcsetpgrp"
    /\ IF shell_is_interactive /\ childFd0 = TTY /\ tfg # childPgid
          /\ childSig["SIGTTOU"] = "dfl"
       THEN \* tcsetpgrp from a background group: SIGTTOU stops the caller
            /\ childPc' = "stopped"
            /\ UNCHANGED tfg
       ELSE /\ childPc' = "c_signal"
            /\ tfg' = IF shell_is_interactive
                      THEN TcSetPgrp(childFd0, ChildPid, TRUE) ELSE tfg
    /\ UNCHANGED <<pc, otherVars, shellVars, unreaped, kbd, fundex, ub, line_num, tokens, tokLive, cmd_path, fd0, fd1, tmode,
                   childPgid, childSig, childFd0, childFd1, childExeced, childStatus,
                   execArgv, status, nread, prompt, err, forked>>

\* Mutant of ChildResetSignals: the call for SIGTTOU is missing.
ChildResetSignalsButSIGTTOU ==
    /\ childPc = "c_signal"
    /\ childPc' = "c_exec"
    /\ childSig' = [AllDefault EXCEPT !["SIGTTOU"] = childSig["SIGTTOU"]]
    /\ UNCHANGED <<pc, otherVars, shellVars, unreaped, kbd, fundex, ub, line_num, tokens, tokLive, cmd_path,
                   fd0, fd1, tfg, tmode, childPgid, childFd0, childFd1, childExeced,
                   childStatus, execArgv, status, nread, prompt, err, forked>>

\* The five signal() calls.
ChildResetSignals ==
    /\ childPc = "c_signal"
    /\ childPc' = "c_exec"
    /\ childSig' = AllDefault
    /\ UNCHANGED <<pc, otherVars, shellVars, unreaped, kbd, fundex, ub, line_num, tokens, tokLive, cmd_path, fd0, fd1, tfg, tmode,
                   childPgid, childFd0, childFd1, childExeced, childStatus, execArgv,
                   status, nread, prompt, err, forked>>

\* execv(cmd_path, argv) replaces the image when cmd_path names an
\* executable file and argv is well formed; an argv with an unwritten slot
\* may make it fail.  On failure the child exits with EXIT_FAILURE.
ExecvSucceeds(path, argv) == path # NULL /\ Access(path)

\* Mutant of ChildExec: after a failed execv the child exits with status 0.
ChildExecFailureExitsZero ==
    /\ childPc = "c_exec"
    /\ execArgv' = BuildArgv(tokens)
    /\ \/ /\ ExecvSucceeds(cmd_path, BuildArgv(tokens))
          /\ childPc' = "running"
          /\ childExeced' = TRUE
          /\ UNCHANGED childStatus
       \/ /\ \/ ~ExecvSucceeds(cmd_path, BuildArgv(tokens))
             \/ \E k \in DOMAIN BuildArgv(tokens) : BuildArgv(tokens)[k] = UNINIT
          /\ ChildExits("exit0")
          /\ UNCHANGED childExeced
    /\ UNCHANGED <<pc, otherVars, shellVars, unreaped, kbd, fundex, ub, line_num, tokens, tokLive, cmd_path,
                   fd0, fd1, tfg, tmode, childPgid, childSig, childFd0, childFd1, status,
                   nread, prompt, err, forked>>

ChildExec ==
    /\ childPc = "c_exec"
    /\ execArgv' = BuildArgv(tokens)
    /\ \/ /\ ExecvSucceeds(cmd_path, BuildArgv(tokens))
          /\ childPc' = "running"
          /\ childExeced' = TRUE
          /\ UNCHANGED childStatus
       \/ /\ \/ ~ExecvSucceeds(cmd_path, BuildArgv(tokens))
             \/ \E k \in DOMAIN BuildArgv(tokens) : BuildArgv(tokens)[k] = UNINIT
          /\ ChildExits("exit1")
          /\ UNCHANGED childExeced
    /\ UNCHANGED <<pc, otherVars, shellVars, unreaped, kbd, fundex, ub, line_num, tokens, tokLive, cmd_path, fd0, fd1, tfg, tmode,
                   childPgid, childSig, childFd0, childFd1, status, nread, prompt, err,
                   forked>>

\* The program the child runs changes the mode of its controlling terminal
\* (through any descriptor open on it; from a background group this needs
\* SIGTTOU ignored or blocked by the program).
ChildSetMode(m) ==
    /\ childPc = "running"
    /\ shell_is_interactive
    /\ m # tmode
    /\ tmode' = m
    /\ UNCHANGED <<pc, otherVars, shellVars, unreaped, kbd, fundex, ub, line_num, tokens, tokLive, cmd_path, fd0, fd1, tfg,
                   childVars, status, nread, prompt, err, forked>>

\* The program exits, or a signal kills it.
ChildTerminates(st) ==
    /\ childPc = "running"
    /\ ChildExits(st)
    /\ UNCHANGED <<pc, otherVars, shellVars, unreaped, kbd, fundex, ub, line_num, tokens, tokLive, cmd_path, fd0, fd1, tfg, tmode,
                   childPgid, childSig, childFd0, childFd1, childExeced, execArgv, status,
                   nread, prompt, err, forked>>

\* ------------------------------------------------------------- keyboard
ShellExited == pc \in {"exit_init", "exit_fork", "exit_builtin", "exit_eof", "segv", "sig_killed"}

\* The processes a signal to the foreground group is delivered to.
ShellInForeground == ~ShellExited /\ shellPgrp = tfg

ChildInForeground == childPc \notin {"none", "zombie"} /\ childPgid = tfg

\* The shell is between fork and its tcsetpgrp(pid): the foreground group
\* is still the shell's unless the child has taken it.
InLaunchWindow == pc \in {"p_setpgid", "p_tcsetpgrp"}

\* What the default action of a keyboard signal does to a process.
Stops(sig) == sig = "SIGTSTP"

\* A key press (Ctrl-C, Ctrl-\, Ctrl-Z): the terminal sends sig to every
\* process of its foreground group.  A process that ignores sig is not
\* affected; the default action terminates or stops it.  A key press that
\* changes nothing is no step.
KeyboardSignal(sig) ==
    /\ \/ (ShellInForeground /\ shellSig[sig] = "dfl")
       \/ (ChildInForeground /\ childSig[sig] = "dfl")
       \/ (~kbd /\ ShellInForeground /\ InLaunchWindow)
    /\ pc' = IF ShellInForeground /\ shellSig[sig] = "dfl"
             THEN (IF Stops(sig) THEN "sig_stopped" ELSE "sig_killed")
             ELSE pc
    /\ IF ChildInForeground /\ childSig[sig] = "dfl"
       THEN IF Stops(sig)
            THEN childPc' = "stopped" /\ UNCHANGED childStatus
            ELSE ChildExits("signal")
       ELSE UNCHANGED <<childPc, childStatus>>
    /\ kbd' = (kbd \/ (ShellInForeground /\ InLaunchWindow))
    /\ UNCHANGED <<otherVars, shellVars, unreaped, fundex, ub, line_num, tokens, tokLive, cmd_path, fd0,
                   fd1, tfg, tmode, childPgid, childSig, childFd0, childFd1, childExeced,
                   execArgv, status, nread, prompt, err, forked>>

\* ------------------------------------------------------------- specification
Next ==
    \/ InitShell
    \/ MainPrompt
    \/ ReadEOF
    \/ ReadLine
    \/ RunBuiltin
    \/ NullCommand
    \/ Resolve
    \/ RedirectBadOperator
    \/ RedirectOpenFails
    \/ Redirect
    \/ ForkFails
    \/ Fork
    \/ ParentSetpgid
    \/ ParentHandForeground
    \/ ParentWait
    \/ ParentReclaim
    \/ ChildSetpgid
    \/ ChildTakeForeground
    \/ ChildResetSignals
    \/ ChildExec
    \/ \E m \in Modes : ChildSetMode(m)
    \/ \E st \in {"exit0", "exit1", "signal"} : ChildTerminates(st)
    \/ \E sig \in KeyboardSignals : KeyboardSignal(sig)

Spec == Init /\ [][Next]_vars

\* ------------------------------------------------------------- the resolver alone
\* The resolution of one command name (is_full_path, get_full_path) over
\* more PATH values, names and sets of executable files than the runs of
\* the shell above go through.
ResolverFields == {<<"/", "u">>, <<"/", "b">>, <<>>}

RECURSIVE JoinPath(_)
JoinPath(fields) ==
    IF Len(fields) = 1 THEN fields[1]
    ELSE fields[1] \o <<":">> \o JoinPath(Tail(fields))

ResolverPaths ==
    {NULL} \cup {JoinPath(fs) : fs \in (SeqsOver(ResolverFields, MaxDirs) \ {<<>>})}

ResolverNames ==
    {S_ls, S_no, <<".">>, <<".", ".">>, <<".", "l", "s">>,
     S_dotA, S_upN, <<"/", "b", "/", "l", "s">>, <<"/">>, <<".", "/">>, <<".", ".", "/">>}

ResolverFiles ==
    {<<"/", "u", "/", "l", "s">>, <<"/", "b", "/", "l", "s">>, <<"/", "b", "/", "n", "o">>,
     <<"/", "u", "/", ".">>, S_dotA}

InitResolver ==
    /\ pc = "resolve"
    /\ tokens \in {<<name>> : name \in ResolverNames}
    /\ tokLive = TRUE
    /\ envPATH \in ResolverPaths
    /\ execFiles \in SUBSET ResolverFiles
    /\ cmd_path = NULL
    /\ shell_is_interactive = FALSE
    /\ shell_tmodes = "zero"
    /\ shell_pgid = 0
    /\ line_num = 0
    /\ fundex = -1
    /\ fd0 = SCRIPT
    /\ fd1 = TTY
    /\ shellPgrp = OrigPgid
    /\ shellSig = AllDefault
    /\ tfg = OrigPgid
    /\ tmode = "cooked"
    /\ NoChild
    /\ status = "none"
    /\ nread = 1
    /\ prompt = -1
    /\ err = "none"
    /\ forked = FALSE
    /\ ub = FALSE
    /\ startupFailed = {}
    /\ unreaped = 0
    /\ kbd = FALSE
    /\ OthersIdle

\* The resolution step of main on token 0.
ResolverCall ==
    /\ pc = "resolve"
    /\ pc' = "resolved"
    /\ cmd_path' = ResolveCmd(TokensGetToken(tokens, 0), envPATH)
    /\ UNCHANGED <<otherVars, shellVars, unreaped, kbd, fundex, ub, line_num, tokens, tokLive, fd0, fd1,
                   tfg, tmode, childVars, status, nread, prompt, err, forked>>

NextResolver == ResolverCall

SpecResolver == InitResolver /\ [][NextResolver]_vars

\* ------------------------------------------------------------- the built-ins alone
\* One call of a built-in from main's dispatch, with the value it returns.
\* The system calls getcwd and chdir succeed or fail as the system decides.
InitBuiltins ==
    /\ pc = "dispatch"
    /\ tokens \in {l \in Lines : Lookup(TokensGetToken(l, 0)) >= 0}
    /\ fundex = Lookup(TokensGetToken(tokens, 0))
    /\ tokLive = TRUE
    /\ ret = -1
    /\ cwd \in {<<"/">>, S_x}
    /\ envPATH = NULL
    /\ execFiles = {}
    /\ cmd_path = NULL
    /\ shell_is_interactive = FALSE
    /\ shell_tmodes = "zero"
    /\ shell_pgid = 0
    /\ line_num = 0
    /\ fd0 = SCRIPT
    /\ fd1 = TTY
    /\ shellPgrp = OrigPgid
    /\ shellSig = AllDefault
    /\ tfg = OrigPgid
    /\ tmode = "cooked"
    /\ NoChild
    /\ status = "none"
    /\ nread = 1
    /\ prompt = -1
    /\ err = "none"
    /\ forked = FALSE
    /\ ub = FALSE
    /\ startupFailed = {}
    /\ unreaped = 0
    /\ kbd = FALSE
    /\ WordcountIdle
    /\ FwordsIdle

\* What a call of a built-in leaves alone.
builtinFrame ==
    <<shellVars, childVars, line_num, tokens, tokLive, fundex, cmd_path, fd0, fd1,
      tfg, tmode, status, nread, prompt, forked, ub, unreaped, kbd>>

CmdHelp ==
    /\ pc = "dispatch"
    /\ fundex >= 0
    /\ cmd_table[fundex + 1] = S_help
    /\ ret' = 1
    /\ pc' = "returned"
    /\ UNCHANGED <<builtinFrame, wcVars, fwVars, err, cwd>>

CmdExit ==
    /\ pc = "dispatch"
    /\ fundex >= 0
    /\ cmd_table[fundex + 1] = S_exit
    /\ pc' = "exit_builtin"
    /\ UNCHANGED <<builtinFrame, wcVars, fwVars, err, cwd, ret>>

CmdPwd ==
    /\ pc = "dispatch"
    /\ fundex >= 0
    /\ cmd_table[fundex + 1] = S_pwd
    /\ \E getcwdOk \in BOOLEAN :
          IF getcwdOk
          THEN ret' = 0 /\ UNCHANGED err
          ELSE ret' = 1 /\ err' = "getcwd"
    /\ pc' = "returned"
    /\ UNCHANGED <<builtinFrame, wcVars, fwVars, cwd>>

CmdCd ==
    /\ pc = "dispatch"
    /\ fundex >= 0
    /\ cmd_table[fundex + 1] = S_cd
    /\ LET dir == TokensGetToken(tokens, 1)
       IN  IF dir = NULL
           THEN ret' = 1 /\ err' = "missing" /\ UNCHANGED cwd
           ELSE \E chdirOk \in BOOLEAN :
                   IF chdirOk
                   THEN ret' = 0 /\ cwd' = dir /\ UNCHANGED err
                   ELSE ret' = 1 /\ err' = "chdir" /\ UNCHANGED cwd
    /\ pc' = "returned"
    /\ UNCHANGED <<builtinFrame, wcVars, fwVars>>

NextBuiltins ==
    \/ CmdHelp
    \/ CmdExit
    \/ CmdPwd
    \/ CmdCd

SpecBuiltins == InitBuiltins /\ [][NextBuiltins]_vars

\* ------------------------------------------------------------- the word counters
\* The shell is not running.
ShellIdle ==
    /\ pc = "idle"
    /\ tokens = <<>>
    /\ tokLive = FALSE
    /\ envPATH = NULL
    /\ execFiles = {}
    /\ cmd_path = NULL
    /\ shell_is_interactive = FALSE
    /\ shell_tmodes = "zero"
    /\ shell_pgid = 0
    /\ line_num = 0
    /\ fundex = -1
    /\ fd0 = SCRIPT
    /\ fd1 = TTY
    /\ shellPgrp = OrigPgid
    /\ shellSig = AllDefault
    /\ tfg = OrigPgid
    /\ tmode = "cooked"
    /\ NoChild
    /\ status = "none"
    /\ nread = 0
    /\ prompt = -1
    /\ err = "none"
    /\ forked = FALSE
    /\ ub = FALSE
    /\ startupFailed = {}
    /\ unreaped = 0
    /\ kbd = FALSE

\* The words of a file, as count_words hands them to add_word.
WordSeqs == SeqsOver(Words, MaxWords)

Entry(w, n) == [word |-> w, count |-> n]

\* find_word: the first entry of the list with this word, 0 for NULL.
RECURSIVE FindFrom(_, _, _)
FindFrom(lst, w, i) ==
    IF i > Len(lst) THEN 0
    ELSE IF lst[i].word = w THEN i
    ELSE FindFrom(lst, w, i + 1)

FindWord(lst, w) == FindFrom(lst, w, 1)

\* The decimal digits, and the order of the characters that occur in words
\* and counts.
Digits == <<"0", "1", "2", "3", "4", "5", "6", "7", "8", "9">>

Alphabet == Digits \o <<"a", "b", "c">>

CharRank(c) == CHOOSE i \in 1 .. Len(Alphabet) : Alphabet[i] = c

\* strcmp(w1, w2) < 0.
RECURSIVE StrLess(_, _)
StrLess(w1, w2) ==
    IF w2 = <<>> THEN FALSE
    ELSE IF w1 = <<>> THEN TRUE
    ELSE IF Head(w1) # Head(w2) THEN CharRank(Head(w1)) < CharRank(Head(w2))
    ELSE StrLess(Tail(w1), Tail(w2))

\* less_count: by count, then by word.
LessCount(e1, e2) ==
    \/ e1.count < e2.count
    \/ (e1.count = e2.count /\ StrLess(e1.word, e2.word))

RECURSIVE InsertSorted(_, _)
InsertSorted(e, lst) ==
    IF lst = <<>> THEN <<e>>
    ELSE IF LessCount(e, Head(lst)) THEN <<e>> \o lst
    ELSE <<Head(lst)>> \o InsertSorted(e, Tail(lst))

RECURSIVE ListSort(_)
ListSort(lst) ==
    IF lst = <<>> THEN <<>> ELSE InsertSorted(Head(lst), ListSort(Tail(lst)))

\* ------------------------------------------------------------- pwords
\* main of pwords with argc - 1 files; without files main counts stdin
\* itself (thread 0).
InitPwords ==
    /\ ShellIdle
    /\ BuiltinIdle
    /\ nfiles \in 0 .. MaxFiles
    /\ todo \in [Threads -> WordSeqs]
    /\ \A t \in Threads :
          (IF nfiles = 0 THEN t # 0 ELSE (t = 0 \/ t > nfiles)) => (todo[t] = <<>>)
    /\ tpc = [t \in Threads |-> IF t = 0 /\ nfiles = 0 THEN "words" ELSE "none"]
    /\ found = [t \in Threads |-> 0]
    /\ lock = -1
    /\ word_counts = <<>>
    /\ mpc = IF nfiles = 0 THEN "count" ELSE "create"
    /\ mi = 1
    /\ calls = [w \in Words |-> 0]
    /\ out = <<>>
    /\ FwordsIdle

\* The process lives until main returns or calls exit.
ProcessRuns == mpc \notin {"idle", "done", "exit1"}

\* thread_rountine up to count_words: fopen, pthread_exit when it fails.
ThreadOpen(t) ==
    /\ ProcessRuns
    /\ tpc[t] = "open"
    /\ \E ok \in BOOLEAN :
          tpc' = [tpc EXCEPT ![t] = IF ok THEN "words" ELSE "done"]
    /\ UNCHANGED <<shellState, biVars, fwVars, nfiles, todo, found, lock, word_counts, mpc, mi,
                   calls, out>>

AddWordNoLock(t) ==
    /\ ProcessRuns
    /\ tpc[t] = "words"
    /\ todo[t] # <<>>
    /\ lock' = t
    /\ calls' = [calls EXCEPT ![Head(todo[t])] = @ + 1]
    /\ tpc' = [tpc EXCEPT ![t] = "a_find"]
    /\ UNCHANGED <<shellState, biVars, fwVars, nfiles, todo, found, word_counts, mpc, mi, out>>

\* count_words has a next word and calls add_word, which takes the lock.
AddWordLock(t) ==
    /\ ProcessRuns
    /\ tpc[t] = "words"
    /\ todo[t] # <<>>
    /\ lock = -1
    /\ lock' = t
    /\ calls' = [calls EXCEPT ![Head(todo[t])] = @ + 1]
    /\ tpc' = [tpc EXCEPT ![t] = "a_find"]
    /\ UNCHANGED <<shellState, biVars, fwVars, nfiles, todo, found, word_counts, mpc, mi, out>>

\* add_word: wc = find_word(wclist, word).
AddWordFind(t) ==
    /\ ProcessRuns
    /\ tpc[t] = "a_find"
    /\ found' = [found EXCEPT ![t] = FindWord(word_counts, Head(todo[t]))]
    /\ tpc' = [tpc EXCEPT ![t] = "a_update"]
    /\ UNCHANGED <<shellState, biVars, fwVars, nfiles, todo, lock, word_counts, mpc, mi, calls, out>>

\* add_word: the entry found is incremented, or a new entry with count 1
\* is pushed at the back; then the unlock and the return to count_words.
AddWordUpdate(t) ==
    /\ ProcessRuns
    /\ tpc[t] = "a_update"
    /\ word_counts' =
          IF found[t] # 0
          THEN [word_counts EXCEPT ![found[t]].count = @ + 1]
          ELSE Append(word_counts, Entry(Head(todo[t]), 1))
    /\ lock' = -1
    /\ found' = [found EXCEPT ![t] = 0]
    /\ todo' = [todo EXCEPT ![t] = Tail(@)]
    /\ tpc' = [tpc EXCEPT ![t] = "words"]
    /\ UNCHANGED <<shellState, biVars, fwVars, nfiles, mpc, mi, calls, out>>

\* count_words is at the end of its file: the thread ends (fclose, free,
\* pthread_exit); main on stdin goes on to the sort.
CountWordsEnd(t) ==
    /\ ProcessRuns
    /\ tpc[t] = "words"
    /\ todo[t] = <<>>
    /\ tpc' = [tpc EXCEPT ![t] = "done"]
    /\ mpc' = IF t = 0 THEN "sort" ELSE mpc
    /\ UNCHANGED <<shellState, biVars, fwVars, nfiles, todo, found, lock, word_counts, mi, calls, out>>

\* One turn of the creation loop.
MainCreate ==
    /\ mpc = "create"
    /\ \E ok \in BOOLEAN :
          IF ok
          THEN /\ tpc' = [tpc EXCEPT ![mi] = "open"]
               /\ mpc' = IF mi < nfiles THEN "create" ELSE "join"
               /\ mi' = IF mi < nfiles THEN mi + 1 ELSE 1
          ELSE /\ mpc' = "exit1"
               /\ UNCHANGED <<tpc, mi>>
    /\ UNCHANGED <<shellState, biVars, fwVars, nfiles, todo, found, lock, word_counts, calls, out>>

MainJoinNoWait ==
    /\ mpc = "join"
    /\ mpc' = IF mi < nfiles THEN "join" ELSE "sort"
    /\ mi' = IF mi < nfiles THEN mi + 1 ELSE mi
    /\ UNCHANGED <<shellState, biVars, fwVars, nfiles, todo, tpc, found, lock, word_counts,
                   calls, out>>

\* One turn of the join loop: pthread_join returns when the thread has
\* ended; a failure of the call ends the process.
MainJoin ==
    /\ mpc = "join"
    /\ \/ /\ tpc[mi] = "done"
          /\ mpc' = IF mi < nfiles THEN "join" ELSE "sort"
          /\ mi' = IF mi < nfiles THEN mi + 1 ELSE mi
       \/ /\ mpc' = "exit1"
          /\ UNCHANGED mi
    /\ UNCHANGED <<shellState, biVars, fwVars, nfiles, todo, tpc, found, lock, word_counts,
                   calls, out>>

\* wordcount_sort: lock, list_sort, unlock.
MainSort ==
    /\ mpc = "sort"
    /\ lock = -1
    /\ word_counts' = ListSort(word_counts)
    /\ mpc' = "print"
    /\ UNCHANGED <<shellState, biVars, fwVars, nfiles, todo, tpc, found, lock, mi, calls, out>>

\* fprint_words, then main returns 0.
MainPrint ==
    /\ mpc = "print"
    /\ out' = word_counts
    /\ mpc' = "done"
    /\ UNCHANGED <<shellState, biVars, fwVars, nfiles, todo, tpc, found, lock, word_counts, mi,
                   calls>>

NextPwords ==
    \/ \E t \in Threads : ThreadOpen(t)
    \/ \E t \in Threads : AddWordLock(t)
    \/ \E t \in Threads : AddWordFind(t)
    \/ \E t \in Threads : AddWordUpdate(t)
    \/ \E t \in Threads : CountWordsEnd(t)
    \/ MainCreate
    \/ MainJoin
    \/ MainSort
    \/ MainPrint

SpecPwords == InitPwords /\ [][NextPwords]_vars

\* ------------------------------------------------------------- the pipe format
\* The field width of "%8d", in fprint_words and in merge_counts.
FieldWidth == 8

WhiteSpace == {" ", "\t", "\n"}

DigitSet == {Digits[i] : i \in 1 .. Len(Digits)}

\* The characters of the text that are not white space.
NonWhite == {Alphabet[i] : i \in 1 .. Len(Alphabet)}

\* A non-negative int printed by %d.
RECURSIVE DigitsOf(_)
DigitsOf(n) ==
    IF n < 10 THEN <<Digits[n + 1]>>
    ELSE DigitsOf(n \div 10) \o <<Digits[(n % 10) + 1]>>

\* The int that %d makes of a run of digits.
RECURSIVE ValueOf(_)
ValueOf(ds) ==
    IF ds = <<>> THEN 0
    ELSE 10 * ValueOf(SubSeq(ds, 1, Len(ds) - 1)) + (CharRank(ds[Len(ds)]) - 1)

\* A field of printf: padded with blanks on the left up to the width, never
\* cut.
PadLeft(str, width) ==
    IF Len(str) >= width THEN str
    ELSE [i \in 1 .. (width - Len(str)) |-> " "] \o str

\* fprintf(outfile, "%8d\t%s\n", wc->count, wc->word).
FprintLine(e) ==
    PadLeft(DigitsOf(e.count), FieldWidth) \o <<"\t">> \o e.word \o <<"\n">>

\* fprint_words: one line per entry, in list order.
FprintWords(lst) == [i \in 1 .. Len(lst) |-> FprintLine(lst[i])]

RECURSIVE Flatten(_)
Flatten(lines) ==
    IF lines = <<>> THEN <<>> ELSE Head(lines) \o Flatten(Tail(lines))

\* The longest prefix of str, of at most max characters, all in the set.
RECURSIVE PrefixIn(_, _, _)
PrefixIn(str, set, max) ==
    IF str = <<>> \/ max = 0 \/ Head(str) \notin set THEN <<>>
    ELSE <<Head(str)>> \o PrefixIn(Tail(str), set, max - 1)

Drop(str, n) == SubSeq(str, n + 1, Len(str))

SkipWhite(str) == Drop(str, Len(PrefixIn(str, WhiteSpace, Len(str))))

EOF == -1

\* fscanf(count_stream, "%8d\t%ms\n", &count, &word) on the unread text
\* (without a sign: the counts printed are not negative): %8d skips white
\* space and takes at most 8 digits, the white space of the format matches
\* any white space, %ms takes the characters up to the next white space.
Fscanf(text) ==
    LET t1 == SkipWhite(text)
        ds == PrefixIn(t1, DigitSet, FieldWidth)
        t2 == SkipWhite(Drop(t1, Len(ds)))
        wd == PrefixIn(t2, NonWhite, Len(t2))
        t3 == SkipWhite(Drop(t2, Len(wd)))
    IN  IF t1 = <<>> THEN [rv |-> EOF, count |-> 0, word |-> NULL, rest |-> t1]
        ELSE IF ds = <<>> THEN [rv |-> 0, count |-> 0, word |-> NULL, rest |-> t1]
        ELSE IF wd = <<>>
             THEN [rv |-> 1, count |-> ValueOf(ds), word |-> NULL, rest |-> t2]
        ELSE [rv |-> 2, count |-> ValueOf(ds), word |-> wd, rest |-> t3]

\* add_word_with_count of the list implementation.
AddWordWithCount(lst, w, c) ==
    IF w = NULL \/ c < 0 THEN lst
    ELSE IF FindWord(lst, w) # 0
         THEN [lst EXCEPT ![FindWord(lst, w)].count = @ + c]
    ELSE Append(lst, Entry(w, c))

\* merge_counts: the list after the loop and the last value of rv.
RECURSIVE MergeCounts(_, _)
MergeCounts(lst, text) ==
    LET r == Fscanf(text)
    IN  IF r.rv = 2
        THEN MergeCounts(AddWordWithCount(lst, r.word, r.count), r.rest)
        ELSE [list |-> lst, rv |-> r.rv]

\* ------------------------------------------------------------- the pipe format alone
\* The counts of the lists written; sums stay below INT_MAX.
CountValues == {0, 1, 2, 99999999, 100000000}

\* The lists of at most MaxWords entries, each word at most once.
WordLists ==
    {l \in UNION {[1 .. n -> [word : Words, count : CountValues]] : n \in 0 .. MaxWords} :
        \A i, j \in 1 .. Len(l) : (l[i].word = l[j].word) => (i = j)}

TargetLists == {<<>>, <<Entry(S_a, 1)>>, <<Entry(S_b, 2), Entry(S_a, 99999999)>>}

\* A child's list, and the parent's list before the merge.
InitRoundTrip ==
    /\ ShellIdle
    /\ BuiltinIdle
    /\ nfiles = 1
    /\ todo = <<>>
    /\ tpc = <<>>
    /\ found = <<>>
    /\ lock = -1
    /\ word_counts \in TargetLists
    /\ mpc = "write"
    /\ mi = 1
    /\ calls = <<>>
    /\ out = <<>>
    /\ cpc = [i \in Children |-> "none"]
    /\ clist \in [Children -> WordLists]
    /\ \A i \in Children : (i # 1) => (clist[i] = <<>>)
    /\ wbuf = [i \in Children |-> <<>>]
    /\ cstatus = [i \in Children |-> "none"]
    /\ pipes = [i \in Children |-> <<>>]
    /\ rd = [i \in Children |-> {}]
    /\ wr = [i \in Children |-> {}]
    /\ reaped = [i \in Children |-> 0]
    /\ sawEOF = [i \in Children |-> FALSE]

\* fprint_words(L) into the stream.
RoundTripWrite ==
    /\ mpc = "write"
    /\ pipes' = [pipes EXCEPT ![1] = FprintWords(clist[1])]
    /\ mpc' = "merge"
    /\ UNCHANGED <<shellState, biVars, nfiles, todo, tpc, found, lock, word_counts, mi,
                   calls, out, cpc, clist, wbuf, cstatus, rd, wr, reaped, sawEOF>>

\* merge_counts on all of that text.
RoundTripMerge ==
    /\ mpc = "merge"
    /\ LET r == MergeCounts(word_counts, Flatten(pipes[1]))
       IN  /\ word_counts' = r.list
           /\ sawEOF' = [sawEOF EXCEPT ![1] = (r.rv = EOF)]
    /\ pipes' = [pipes EXCEPT ![1] = <<>>]
    /\ mpc' = "merged"
    /\ UNCHANGED <<shellState, biVars, nfiles, todo, tpc, found, lock, mi,
                   calls, out, cpc, clist, wbuf, cstatus, rd, wr, reaped>>

NextRoundTrip ==
    \/ RoundTripWrite
    \/ RoundTripMerge

SpecRoundTrip == InitRoundTrip /\ [][NextRoundTrip]_vars

\* ------------------------------------------------------------- fwords
\* What count_words leaves in child_word_counts, for the files of the model:
\* an empty file, files of one, two and three different words, and a file in
\* which one word occurs 100,000,000 times.
ChildLists ==
    { <<>>,
      <<Entry(S_a, 1)>>,
      <<Entry(S_b, 2), Entry(S_a, 1)>>,
      <<Entry(S_a, 1), Entry(S_b, 1), Entry(S_c, 1)>>,
      <<Entry(S_a, 100000000), Entry(S_b, 1), Entry(S_c, 1)>> }

\* main of fwords with argc - 1 files; process 0 is the parent, process i
\* the child for file i.
InitFwords ==
    /\ ShellIdle
    /\ BuiltinIdle
    /\ nfiles \in 0 .. MaxFiles
    /\ todo = <<>>
    /\ tpc = <<>>
    /\ found = <<>>
    /\ lock = -1
    /\ word_counts = <<>>
    /\ mpc = IF nfiles = 0 THEN "count" ELSE "fork"
    /\ mi = 1
    /\ calls = <<>>
    /\ out = <<>>
    /\ cpc = [i \in Children |-> "none"]
    /\ clist \in [Children -> ChildLists]
    /\ \A i \in Children : (i > nfiles) => (clist[i] = <<>>)
    /\ wbuf = [i \in Children |-> <<>>]
    /\ cstatus = [i \in Children |-> "none"]
    /\ pipes = [i \in Children |-> <<>>]
    /\ rd = [i \in Children |-> {}]
    /\ wr = [i \in Children |-> {}]
    /\ reaped = [i \in Children |-> 0]
    /\ sawEOF = [i \in Children |-> FALSE]

\* What the word counter of fwords never touches.
fwFrame == <<shellState, biVars, nfiles, todo, tpc, found, lock, calls>>

\* fork: the child gets a copy of every descriptor the parent holds.
Inherit(ends, child) ==
    [k \in Children |-> IF 0 \in ends[k] THEN ends[k] \cup {child} ELSE ends[k]]

\* The end of a process closes every descriptor it holds.
CloseAll(ends, proc) == [k \in Children |-> ends[k] \ {proc}]

\* Without files the parent counts stdin itself.
FwCountStdin ==
    /\ mpc = "count"
    /\ \E l \in ChildLists : word_counts' = l
    /\ mpc' = "sort"
    /\ UNCHANGED <<fwFrame, mi, out, fwVars>>

\* One turn of the first loop up to the fork: pipe(pipefd), fork(); the
\* failure of either ends the parent.
FwPipeFork ==
    /\ mpc = "fork"
    /\ \E ok \in BOOLEAN :
          IF ok
          THEN /\ rd' = Inherit([rd EXCEPT ![mi] = {0}], mi)
               /\ wr' = Inherit([wr EXCEPT ![mi] = {0}], mi)
               /\ cpc' = [cpc EXCEPT ![mi] = "start"]
               /\ mpc' = "closew"
          ELSE /\ rd' = CloseAll(rd, 0)
               /\ wr' = CloseAll(wr, 0)
               /\ mpc' = "exit1"
               /\ UNCHANGED cpc
    /\ UNCHANGED <<fwFrame, word_counts, mi, out, clist, wbuf, cstatus, pipes, reaped,
                   sawEOF>>

\* The parent's branch after the fork: close(pipefd[1]), read_fds[i] =
\* pipefd[0], and the next turn or the second loop.
FwParentCloseWrite ==
    /\ mpc = "closew"
    /\ wr' = [wr EXCEPT ![mi] = @ \ {0}]
    /\ mpc' = IF mi < nfiles THEN "fork" ELSE "merge"
    /\ mi' = IF mi < nfiles THEN mi + 1 ELSE 1
    /\ UNCHANGED <<fwFrame, word_counts, out, cpc, clist, wbuf, cstatus, pipes, rd,
                   reaped, sawEOF>>

\* exit of child i, or its end by a signal.
FwChildEnds(i, st) ==
    /\ cpc' = [cpc EXCEPT ![i] = "zombie"]
    /\ cstatus' = [cstatus EXCEPT ![i] = st]
    /\ rd' = CloseAll(rd, i)
    /\ wr' = CloseAll(wr, i)

\* The child's close(pipefd[0]).
FwChildCloseRead(i) ==
    /\ cpc[i] = "start"
    /\ rd' = [rd EXCEPT ![i] = @ \ {i}]
    /\ cpc' = [cpc EXCEPT ![i] = "open"]
    /\ UNCHANGED <<fwFrame, word_counts, mpc, mi, out, clist, wbuf, cstatus, pipes, wr,
                   reaped, sawEOF>>

\* fopen of the file: on failure close(pipefd[1]) and exit(EXIT_FAILURE);
\* else count_words, fdopen and fprint_words, which fills the stream.
FwChildOpen(i) ==
    /\ cpc[i] = "open"
    /\ \E ok \in BOOLEAN :
          IF ok
          THEN /\ wbuf' = [wbuf EXCEPT ![i] = FprintWords(clist[i])]
               /\ cpc' = [cpc EXCEPT ![i] = "write"]
               /\ UNCHANGED <<cstatus, rd, wr>>
          ELSE /\ FwChildEnds(i, "exit1")
               /\ UNCHANGED wbuf
    /\ UNCHANGED <<fwFrame, word_counts, mpc, mi, out, clist, pipes, reaped, sawEOF>>

\* The stream is written to the pipe (by fclose at the latest): a line goes
\* in when the pipe has room, the write blocks when it is full, and SIGPIPE
\* ends the child when no process holds the read end.
FwChildWrite(i) ==
    /\ cpc[i] = "write"
    /\ wbuf[i] # <<>>
    /\ IF rd[i] = {}
       THEN /\ FwChildEnds(i, "sigpipe")
            /\ UNCHANGED <<wbuf, pipes>>
       ELSE /\ Len(pipes[i]) < PipeCap
            /\ pipes' = [pipes EXCEPT ![i] = Append(@, Head(wbuf[i]))]
            /\ wbuf' = [wbuf EXCEPT ![i] = Tail(@)]
            /\ UNCHANGED <<cpc, cstatus, rd, wr>>
    /\ UNCHANGED <<fwFrame, word_counts, mpc, mi, out, clist, reaped, sawEOF>>

\* All is written: fclose returns and the child calls exit(EXIT_SUCCESS).
FwChildExit(i) ==
    /\ cpc[i] = "write"
    /\ wbuf[i] = <<>>
    /\ FwChildEnds(i, "exit0")
    /\ UNCHANGED <<fwFrame, word_counts, mpc, mi, out, clist, wbuf, pipes, reaped,
                   sawEOF>>

\* merge_counts on pipe i: the fscanf loop takes what is in the pipe, waits
\* when the pipe is empty and a process holds its write end, and ends at
\* the end of the stream or at a record it cannot read.
FwMergeRead ==
    /\ mpc = "merge"
    /\ IF pipes[mi] # <<>>
       THEN LET r == MergeCounts(word_counts, Head(pipes[mi]))
            IN  /\ word_counts' = r.list
                /\ pipes' = [pipes EXCEPT ![mi] = Tail(@)]
                /\ mpc' = IF r.rv = EOF THEN "merge" ELSE "closer"
                /\ UNCHANGED sawEOF
       ELSE /\ wr[mi] = {}
            /\ sawEOF' = [sawEOF EXCEPT ![mi] = TRUE]
            /\ mpc' = "closer"
            /\ UNCHANGED <<word_counts, pipes>>
    /\ UNCHANGED <<fwFrame, mi, out, cpc, clist, wbuf, cstatus, rd, wr, reaped>>

\* fclose(pipe_stream), which closes read_fds[i].
FwParentCloseRead ==
    /\ mpc = "closer"
    /\ rd' = [rd EXCEPT ![mi] = @ \ {0}]
    /\ mpc' = "wait"
    /\ UNCHANGED <<fwFrame, word_counts, mi, out, cpc, clist, wbuf, cstatus, pipes, wr,
                   reaped, sawEOF>>

\* waitpid(pids[i], &status, 0) returns when child i has ended.
FwParentWait ==
    /\ mpc = "wait"
    /\ cpc[mi] = "zombie"
    /\ cpc' = [cpc EXCEPT ![mi] = "reaped"]
    /\ reaped' = [reaped EXCEPT ![mi] = @ + 1]
    /\ mpc' = IF mi < nfiles THEN "merge" ELSE "sort"
    /\ mi' = IF mi < nfiles THEN mi + 1 ELSE mi
    /\ UNCHANGED <<fwFrame, word_counts, out, clist, wbuf, cstatus, pipes, rd, wr,
                   sawEOF>>

\* wordcount_sort of the list implementation.
FwSort ==
    /\ mpc = "sort"
    /\ word_counts' = ListSort(word_counts)
    /\ mpc' = "print"
    /\ UNCHANGED <<fwFrame, mi, out, fwVars>>

\* fprint_words(&word_counts, stdout) and the return from main.
FwPrint ==
    /\ mpc = "print"
    /\ out' = FprintWords(word_counts)
    /\ mpc' = "done"
    /\ UNCHANGED <<fwFrame, word_counts, mi, fwVars>>

FwParent ==
    \/ FwCountStdin
    \/ FwPipeFork
    \/ FwParentCloseWrite
    \/ FwMergeRead
    \/ FwParentCloseRead
    \/ FwParentWait
    \/ FwSort
    \/ FwPrint

FwChild(i) ==
    \/ FwChildCloseRead(i)
    \/ FwChildOpen(i)
    \/ FwChildWrite(i)
    \/ FwChildExit(i)

NextFwords ==
    \/ FwParent
    \/ \E i \in Children : FwChild(i)

SpecFwords == InitFwords /\ [][NextFwords]_vars

\* ------------------------------------------------------------- vocabulary of the claims
BuiltinNames == {S_help, S_exit, S_pwd, S_cd}

Operators == {GT, LT}

HasPrefix(str, p) == Len(str) >= Len(p) /\ SubSeq(str, 1, Len(p)) = p

PathLike(cmd) ==
    \/ HasPrefix(cmd, <<"/">>)
    \/ HasPrefix(cmd, <<".", "/">>)
    \/ HasPrefix(cmd, <<".", ".", "/">>)

\* The positions (from 1) of the operator tokens of a line.
OperatorPositions(toks) == {k \in 1..Len(toks) : toks[k] \in Operators}

\* The line holds exactly one operator, at index i >= 1 (from 0), and a
\* filename token after it.
OneRedirectionAt(toks, i) ==
    /\ i >= 1
    /\ i + 2 <= Len(toks)
    /\ OperatorPositions(toks) = {i + 1}

\* The tokens of a line without the operator at position k and its filename.
WithoutRedirection(toks, k) == SubSeq(toks, 1, k - 1) \o SubSeq(toks, k + 2, Len(toks))

\* A bare command name that no directory of PATH holds as an executable.
Unresolvable(cmd, path) ==
    /\ ~PathLike(cmd)
    /\ \/ path = NULL
       \/ \A k \in DOMAIN StrTok(path, 1, <<>>) :
             (StrTok(path, 1, <<>>)[k] \o <<"/">> \o cmd) \notin ExecFiles

InParent == pc \in {"p_setpgid", "p_tcsetpgrp", "p_wait", "p_reclaim"}

\* The shell process was terminated or stopped by a keyboard signal.
EndedBySignal == pc \in {"sig_killed", "sig_stopped"}

\* ------------------------------------------------------------- claims

\* C1: in interactive mode, whenever the shell is about to read its next
\* line after a line that launched a foreground child, the terminal's
\* foreground group is shell_pgid and the terminal mode is the saved mode
\* (in runs where no call of init_shell failed).
C1_TerminalRestoredAtRead ==
    (pc = "read" /\ shell_is_interactive /\ startupFailed = {} /\ forked)
        => (tfg = shell_pgid /\ tmode = shell_tmodes)

C3_ShellStreamsKept ==
    (pc # "init" /\ ~EndedBySignal)
        => (fd1 = TTY /\ fd0 = (IF shell_is_interactive THEN TTY ELSE SCRIPT))

\* C4: a line with exactly one operator at any index i >= 1 and a filename
\* after it is not rejected as an invalid operator, and the child launched
\* for it has the stream bound to token i + 1.
C4_RedirectionAtAnyIndex ==
    [][\A i \in 1..Len(tokens) :
          (tokLive /\ tokens[1] \notin BuiltinNames /\ OneRedirectionAt(tokens, i))
              => /\ err' # "badop"
                 /\ (childPc' # "none")
                       => (IF tokens[i + 1] = GT THEN childFd1' ELSE childFd0') = tokens[i + 2]]_vars

\* C5: the argv the child hands to execv is the token sequence with the
\* operator and its filename removed (the whole sequence when the line has
\* no operator), the other tokens in order, then one NULL.
C5_ArgvStripsRedirection ==
    (execArgv # <<>>)
        => /\ (OperatorPositions(tokens) = {}) => (execArgv = tokens \o <<NULL>>)
           /\ \A k \in 1..Len(tokens) :
                 (OperatorPositions(tokens) = {k} /\ k < Len(tokens))
                     => (execArgv = WithoutRedirection(tokens, k) \o <<NULL>>)

C5_Witness ==
    /\ childPc = "running"
    /\ tokens = <<S_ls, GT, S_f, S_x>>
    /\ execArgv = <<S_ls, S_x, NULL>>

\* C6: a line whose command name is not path-like and is found in no PATH
\* directory (or PATH is unset) gets a not-found message and forks no child.
C6_NotFoundForksNoChild ==
    (tokLive /\ Len(tokens) >= 1 /\ tokens[1] \notin BuiltinNames
       /\ Unresolvable(tokens[1], envPATH))
        => ~forked

C8_MissingFilenameContinues ==
    (tokLive /\ Len(tokens) >= 1 /\ tokens[1] \notin BuiltinNames
       /\ OperatorPositions(tokens) = {Len(tokens)})
        => (~forked /\ (pc = "dispatch" \/ EndedBySignal))

\* C9: in interactive mode a prompt is printed before every read, and the
\* prompt before the read that follows k lines shows k (lines whose
\* processing read through a NULL pointer are left out).
C9_PromptBeforeEveryRead ==
    (pc = "read" /\ shell_is_interactive /\ ~ub) => (prompt = nread)

\* C10: a line whose first token is a built-in name is run by the shell
\* itself: it never forks, and no child exists while or after it is run.
C10_BuiltinNeverForks ==
    /\ (tokLive /\ Len(tokens) >= 1 /\ tokens[1] \in BuiltinNames)
          => /\ fundex >= 0 /\ ~forked /\ NoChild
             /\ pc \in {"dispatch", "exit_builtin"} \/ EndedBySignal
    /\ (fundex >= 0)
          => /\ ~forked /\ NoChild
             /\ pc \in {"dispatch", "read", "exit_builtin", "exit_eof"} \/ EndedBySignal

C10_Witness ==
    /\ pc = "read"
    /\ nread = 2
    /\ fundex = 3
    /\ ~forked
    /\ NoChild

\* C11: once interactive initialization is done, no keyboard signal sent to
\* the terminal's foreground group, at any point of any interleaving,
\* terminates or stops the shell process.
C11_ShellSurvivesKeyboardSignals ==
    shell_is_interactive => ~EndedBySignal

\* A key was pressed between the fork and the first setpgid: the foreground
\* group holds the shell and its new child, and both are still there.
C11_Witness ==
    /\ shell_is_interactive
    /\ kbd
    /\ pc = "p_setpgid"
    /\ childPc = "c_setpgid"
    /\ childPgid = shellPgrp
    /\ tfg = shellPgrp

\* C12: the shell's dispositions of the five signals are the ones it starts
\* with until interactive startup sets them all to ignore; after that, and
\* in non-interactive mode always, no step changes them.
C12_ShellDispositionsSetOnce ==
    /\ shellSig = (IF shell_is_interactive THEN AllIgnored ELSE AllDefault)
    /\ (pc = "init") => ~shell_is_interactive

C12_Witness ==
    /\ shell_is_interactive
    /\ shellSig = AllIgnored
    /\ pc = "read"
    /\ nread = 2
    /\ forked
    /\ status = "exit0"

\* C13: a child that has reached execv has all five signals at their
\* default disposition, and the shell's own dispositions are not reset.
C13_ChildDefaultsAtExec ==
    (childPc \in {"c_exec", "running"} \/ execArgv # <<>>)
        => /\ childSig = AllDefault
           /\ shell_is_interactive => (shellSig = AllIgnored)

C13_Witness ==
    /\ shell_is_interactive
    /\ childPc = "running"
    /\ childExeced
    /\ childSig = AllDefault
    /\ shellSig = AllIgnored

\* C14: at most one child of the shell is unreaped at any time, and none
\* is while the shell prompts, reads, dispatches a line or is about to fork.
C14_OneForegroundChild ==
    /\ unreaped <= 1
    /\ (pc \in {"main", "read", "dispatch", "fork"}) => (unreaped = 0 /\ NoChild)

\* The second line's child runs; the first line launched a child too (its
\* redirection is still in place) and that child has been reaped.
C14_Witness ==
    /\ nread = 2
    /\ tokens = <<S_ls>>
    /\ fd1 = S_f
    /\ pc = "p_wait"
    /\ childPc = "running"
    /\ unreaped = 1

\* C15: when a call of interactive initialization has failed, the shell
\* reads no input line and does not end with status 0.
C15_StartupFailureIsFatal ==
    (startupFailed # {}) => (nread = 0 /\ pc \notin {"exit_eof", "exit_builtin"})

\* C16: a child whose execv failed is terminated with a non-zero exit
\* status and has run no step of the read loop: the shell is still on the
\* parent path of that line, holding that one unreaped child, and reaps it
\* like any other.
C16_ExecFailureEndsChild ==
    /\ (childPc = "zombie" /\ execArgv # <<>> /\ ~childExeced)
          => /\ childStatus = "exit1"
             /\ unreaped = 1
             /\ forked
             /\ InParent \/ EndedBySignal
    /\ (pc = "p_reclaim") => (NoChild /\ unreaped = 0 /\ status # "none")

C16_Witness ==
    /\ childPc = "zombie"
    /\ execArgv # <<>>
    /\ ~childExeced
    /\ childStatus = "exit1"
    /\ tokens = <<S_upN>>
    /\ pc = "p_wait"

\* C17: the shell's step after its setpgid(pid, pid) is always the hand-over
\* of the foreground, whatever setpgid returned; a failure on a child that
\* is running its program (EACCES) reports nothing, any other is reported as
\* "setpgid" and the line is still waited for and the foreground reclaimed.
C17_SetpgidFailureNotFatal ==
    /\ []((err = "setpgid")
            => /\ forked
               /\ pc \in {"p_tcsetpgrp", "p_wait", "p_reclaim", "read", "exit_eof"}
                     \/ EndedBySignal
               /\ (pc \in {"read", "exit_eof"}) => (unreaped = 0 /\ status # "none")
               /\ (pc \in {"read", "exit_eof"} /\ shell_is_interactive
                      /\ startupFailed = {} /\ fd0 = TTY)
                     => (tfg = shell_pgid))
    /\ [][(pc = "p_setpgid" /\ pc' # "p_setpgid" /\ ~EndedBySignal')
            => /\ pc' = "p_tcsetpgrp"
               /\ (childPc = "running") => (err' = err)
               /\ (err' # err) => (err' = "setpgid")]_vars

C17_Witness ==
    /\ err = "setpgid"
    /\ pc = "read"
    /\ shell_is_interactive
    /\ tfg = shell_pgid
    /\ unreaped = 0
    /\ status = "exit0"

DirStarts(path) ==
    {i \in 1..Len(path) : path[i] # ":" /\ (i = 1 \/ path[i - 1] = ":")}

DirEnd(path, i) ==
    CHOOSE j \in i..Len(path) :
        /\ \A k \in i..j : path[k] # ":"
        /\ (j = Len(path) \/ path[j + 1] = ":")

DirAt(path, i) == SubSeq(path, i, DirEnd(path, i))

\* The directories of path, by position, that hold cmd as an executable.
MatchingDirs(path, cmd) ==
    {i \in DirStarts(path) : (DirAt(path, i) \o <<"/">> \o cmd) \in execFiles}

FirstOf(S) == CHOOSE i \in S : \A j \in S : i <= j

\* C19: for a bare command name the resolver returns directory/name for
\* the leftmost directory of PATH that holds the name as an executable, and
\* not-found exactly when PATH is unset or no directory holds it.
C19_FirstMatchWins ==
    (pc = "resolved" /\ ~PathLike(tokens[1]))
        => IF envPATH = NULL \/ MatchingDirs(envPATH, tokens[1]) = {}
           THEN cmd_path = NULL
           ELSE cmd_path =
                   DirAt(envPATH, FirstOf(MatchingDirs(envPATH, tokens[1])))
                       \o <<"/">> \o tokens[1]

\* Two directories of PATH hold the name and the first directory does not:
\* the earlier of the two is returned.
C19_Witness ==
    /\ pc = "resolved"
    /\ tokens = <<S_ls>>
    /\ envPATH # NULL
    /\ Cardinality(MatchingDirs(envPATH, S_ls)) >= 2
    /\ 1 \notin MatchingDirs(envPATH, S_ls)
    /\ cmd_path = <<"/", "b", "/", "l", "s">>

\* C20: for a line whose token 0 starts with /, ./ or ../ the path kept for
\* execv is that token; the line is never reported as not found, and with no
\* operator on it the shell's next step is the fork, whether or not the
\* file exists.  The resolution step itself returns every such name as it is.
C20_PathLikeTokenUnchanged ==
    /\ []((pc = "main")
            => \A name \in ResolverNames :
                  PathLike(name) => (ResolveCmd(name, envPATH) = name))
    /\ []((tokLive /\ Len(tokens) >= 1 /\ PathLike(tokens[1]))
            => /\ err # "notfound"
               /\ (pc \in {"fork", "p_setpgid", "p_tcsetpgrp", "p_wait"})
                     => (cmd_path = tokens[1]))
    /\ [][(pc = "dispatch" /\ Len(tokens) >= 1 /\ PathLike(tokens[1])
              /\ OperatorPositions(tokens) = {} /\ pc' # "dispatch" /\ ~EndedBySignal')
            => (pc' = "fork" /\ cmd_path' = tokens[1])]_vars

\* A path-like token that names no executable file has been forked for.
C20_Witness ==
    /\ tokens = <<S_upN>>
    /\ ~Access(S_upN)
    /\ cmd_path = S_upN
    /\ childPc = "c_exec"
    /\ pc = "p_wait"

\* The status the shell process ends with, -1 while it runs (or was ended
\* by a signal or a fault).
ExitStatus ==
    CASE pc \in {"exit_builtin", "exit_eof"} -> 0
      [] pc \in {"exit_init", "exit_fork"} -> 1
      [] OTHER -> -1

\* C22: a line whose token 0 is exit ends the shell with status 0 as the
\* very next step of the shell: nothing else is done for the line, and once
\* the shell has exited no prompt is printed and no line is read.
C22_ExitEndsShellAtOnce ==
    /\ []((tokLive /\ Len(tokens) >= 1 /\ tokens[1] = S_exit)
            => (pc \in {"dispatch", "exit_builtin"} \/ EndedBySignal))
    /\ []((pc = "exit_builtin")
            => (ExitStatus = 0 /\ tokens[1] = S_exit /\ ~forked))
    /\ [][(pc = "dispatch" /\ Len(tokens) >= 1 /\ tokens[1] = S_exit
              /\ pc' # pc /\ ~EndedBySignal')
            => (pc' = "exit_builtin" /\ prompt' = prompt /\ nread' = nread
                  /\ line_num' = line_num)]_vars
    /\ [][(pc = "exit_builtin")
            => (pc' = pc /\ prompt' = prompt /\ nread' = nread)]_vars

\* exit was the second line: the shell has ended on it with status 0.
C22_Witness ==
    /\ pc = "exit_builtin"
    /\ tokens[1] = S_exit
    /\ nread = 2
    /\ ExitStatus = 0

\* The places of the shell's loop at which the tokens of the line are used.
UsingTokens ==
    {"dispatch", "fork", "p_setpgid", "p_tcsetpgrp", "p_wait", "p_reclaim"}

\* C23: the tokens of a line are live from its tokenize to the end of its
\* iteration, and only there: they are destroyed by the step that goes back
\* to the read (normal end or `continue`), destroyed only when live, and no
\* place that uses them is reached after they were destroyed.
C23_TokensDestroyedOnce ==
    /\ []((pc = "read") => ~tokLive)
    /\ []((pc \in UsingTokens) => tokLive)
    /\ [][(tokLive /\ ~tokLive') => (pc \in UsingTokens /\ pc' = "read")]_vars
    /\ [][(~tokLive /\ tokLive') => (pc = "read" /\ pc' = "dispatch")]_vars
    /\ [][(pc \in UsingTokens /\ pc' = "read") => (tokLive /\ ~tokLive')]_vars

\* The second line is read after the first one ended on an error path.
C23_Witness ==
    /\ pc = "read"
    /\ nread = 1
    /\ err = "open"
    /\ ~tokLive

\* The order of the child's steps up to its exec.
ChildOrder ==
    { <<"c_setpgid", "c_tcsetpgrp">>, <<"c_tcsetpgrp", "c_signal">>,
      <<"c_signal", "c_exec">>, <<"c_exec", "running">> }

ChildSteps == {"c_setpgid", "c_tcsetpgrp", "c_signal", "c_exec"}

\* C24: the child goes setpgid, tcsetpgrp, signal reset, exec in this order
\* (or ends); at its tcsetpgrp it leads its own group and, in interactive
\* mode, still ignores SIGTTOU, so the call is made and not stopped; the
\* dispositions are the inherited ones until the reset and the defaults
\* from there to the exec.
C24_ChildStepOrder ==
    /\ []((childPc = "c_setpgid") => (childSig = shellSig /\ ~childExeced))
    /\ []((childPc = "c_tcsetpgrp")
            => /\ childPgid = ChildPid
               /\ childSig = shellSig
               /\ shell_is_interactive => (childSig["SIGTTOU"] = "ign")
               /\ ~childExeced)
    /\ []((childPc = "c_signal")
            => (childPgid = ChildPid /\ childSig = shellSig /\ ~childExeced))
    /\ []((childPc = "c_exec")
            => (childPgid = ChildPid /\ childSig = AllDefault /\ ~childExeced))
    /\ []((childPc = "stopped") => (childSig = AllDefault))
    /\ [][(childPc \in ChildSteps /\ childPc' # childPc)
            => (<<childPc, childPc'>> \in ChildOrder
                  \/ childPc' \in {"zombie", "stopped"})]_vars
    /\ [][(childPc = "c_tcsetpgrp" /\ childPc' = "c_signal"
              /\ shell_is_interactive /\ childFd0 = TTY)
            => (tfg' = ChildPid)]_vars

\* The child made itself the foreground group before the parent did
\* anything for it, and has reset its signals.
C24_Witness ==
    /\ shell_is_interactive
    /\ pc = "p_setpgid"
    /\ childPc = "c_exec"
    /\ childPgid = ChildPid
    /\ tfg = ChildPid
    /\ childSig = AllDefault

\* C25: an empty line (no tokens) leaves the shell at its dispatch until the
\* shell goes back to the read; it forks no child and reads no absent token.
C25_EmptyLineHarmless ==
    (tokLive /\ tokens = <<>>)
        => (forked = FALSE /\ ~ub /\ (pc = "dispatch" \/ EndedBySignal))

\* C21: a built-in that returns has returned 0 when it reported no error and
\* 1 when it reported one (cd without a directory, chdir or getcwd failed).
C21_BuiltinReturnValue ==
    (pc = "returned") => (ret = IF err = "none" THEN 0 ELSE 1)

\* The entries of the list for a word.
EntriesOf(w) == {i \in 1 .. Len(word_counts) : word_counts[i].word = w}

\* Every thread that was to run has ended (and the process was not cut
\* short by exit).
AllThreadsFinished ==
    /\ mpc \in {"join", "sort", "print", "done"}
    /\ \A t \in Threads :
          (IF nfiles = 0 THEN t = 0 ELSE (t >= 1 /\ t <= nfiles)) => (tpc[t] = "done")

\* C26: once all threads have finished, a word for which add_word was called
\* n > 0 times in all has exactly one entry, with count n, and a word for
\* which it was never called has none.
C26_NoLostUpdate ==
    AllThreadsFinished
        => \A w \in Words :
              IF calls[w] = 0 THEN EntriesOf(w) = {}
              ELSE /\ Cardinality(EntriesOf(w)) = 1
                   /\ \A i \in EntriesOf(w) : word_counts[i].count = calls[w]

\* Two threads have both counted the same word, one of them twice.
C26_Witness ==
    /\ AllThreadsFinished
    /\ nfiles = 2
    /\ calls[S_a] = 3
    /\ calls[S_b] = 1
    /\ mpc = "join"

\* C29: when main is at the sort or past it, every thread it created has
\* ended, and from there on no add_word call is made and the counts of the
\* list do not change.
C29_SortAfterAllThreads ==
    /\ []((mpc \in {"sort", "print", "done"})
            => \A t \in Threads : tpc[t] \in {"none", "done"})
    /\ [][(mpc \in {"sort", "print", "done"})
            => (calls' = calls /\ tpc' = tpc
                  /\ Len(word_counts') = Len(word_counts))]_vars

\* Main has sorted the words of two threads.
C29_Witness ==
    /\ mpc = "print"
    /\ nfiles = 2
    /\ tpc[1] = "done" /\ tpc[2] = "done"
    /\ calls[S_a] >= 2
    /\ Len(word_counts) = 2

\* The count a list holds for a word (0 without an entry).
RECURSIVE CountOf(_, _)
CountOf(lst, w) ==
    IF lst = <<>> THEN 0
    ELSE (IF Head(lst).word = w THEN Head(lst).count ELSE 0) + CountOf(Tail(lst), w)

\* The words that occur in a list.
WordsOf(lst) == {lst[i].word : i \in 1 .. Len(lst)}

\* C28: merge_counts on the text fprint_words wrote for L adds count(w) to
\* the target for each word w of L, adds nothing else, and reads the text to
\* its end.
C28_CountsRoundTrip ==
    [][(mpc = "merge" /\ mpc' = "merged")
         => /\ \A w \in WordsOf(word_counts') \cup WordsOf(word_counts) \cup Words :
                  CountOf(word_counts', w)
                      = CountOf(word_counts, w) + CountOf(clist[1], w)
            /\ sawEOF'[1]]_vars

\* The parent waits: for data or the end of pipe mi, or for the end of
\* child mi.
ParentBlocked ==
    \/ (mpc = "merge" /\ pipes[mi] = <<>> /\ wr[mi] # {})
    \/ (mpc = "wait" /\ cpc[mi] # "zombie")

\* Child i has no step: it has ended or was not created, or it waits for
\* room in its pipe.
ChildBlocked(i) ==
    \/ cpc[i] \in {"none", "zombie", "reaped"}
    \/ (cpc[i] = "write" /\ wbuf[i] # <<>> /\ rd[i] # {}
          /\ Len(pipes[i]) >= PipeCap)

Deadlocked == ParentBlocked /\ \A i \in Children : ChildBlocked(i)

\* C27: with N files, once the parent has gone on after fork i only child i
\* holds the write end of pipe i; no child is reaped twice; the parent never
\* waits in a state in which no process has a next step;
\* and when it leaves the loop it has reached the end of every pipe and
\* reaped every child once.
C27_ParentDrainsAndReaps ==
    /\ \A i \in Children : (0 \notin wr[i]) => (wr[i] \subseteq {i})
    /\ \A i \in Children : reaped[i] <= 1
    /\ ~Deadlocked
    /\ (nfiles > 0 /\ mpc \in {"sort", "print", "done"})
          => \A i \in 1 .. nfiles : (sawEOF[i] /\ reaped[i] = 1)

====
